---- MODULE Spec2Model ----
(***************************************************************************)
(* dbusfs: a FUSE filesystem that projects a D-Bus bus as directories.     *)
(*                                                                         *)
(* The model follows src/src/main.rs: the DbusFs struct (its three maps    *)
(* and the allocation counter), make_inode, and the four Filesystem        *)
(* callbacks getattr, readdir, lookup and read.  The bus is the            *)
(* environment: every wire call (ListNames, Introspect) is answered by a   *)
(* response chosen afresh for each callback, so the bus may change between *)
(* any two callbacks.                                                      *)
(*                                                                         *)
(* A virtual path (PathBuf) is a sequence of components: <<"a", "x">> is   *)
(* object /x of bus name a.  A callback is one action: the callbacks take  *)
(* &mut self, so no two of them overlap.                                   *)
(*                                                                         *)
(* Spec runs whole callbacks.  SpecConc runs make_inode step by step for   *)
(* requests that are pending at once, with the &mut self borrow as the     *)
(* guard on entry.                                                         *)
(*                                                                         *)
(* The introspection parser follows src/src/node.rs: a text is an element  *)
(* tree and the number of reader events after which it ends, and the       *)
(* from_xml functions are operators over the event sequence.  SpecParse    *)
(* receives a reply text, parses it and drops it.                          *)
(***************************************************************************)
EXTENDS Integers, Sequences, FiniteSets, TLC

\* ---------------------------------------------------------------- bounds
MaxInode == 5    \* the allocation counter is exercised up to this value
MaxCap == 4      \* largest reply buffer, counted in directory entries
MaxOffset == 3   \* largest start offset a readdir call is given
MaxDepth == 2    \* directories deeper than this are not listed
MaxMembers == 2  \* most member elements of an interface element

BusNames == {"a", "b"}     \* connection names the bus may report
NodeNames == {"x"}    \* child node names a document may declare
IfaceNames == {"i"}   \* interface names a document may declare

\* ------------------------------------------------------ program constants
ROOT_INO == 1         \* ROOT_DIR.ino
ROOT_NLINK == 2       \* ROOT_DIR.nlink
FIRST_INO == 2        \* AtomicUsize::new(2)
PERM_DIR == 493       \* 0o755
PERM_DENIED == 488    \* 0o750
PERM_FILE == 420      \* 0o644
DENIED_NLINK == 0     \* nlink of an AccessDenied placeholder
DIR_NLINK == 2        \* file_attr_dir nlink
FILE_NLINK == 1       \* file_attr_file nlink
DOT_OFFSET == 0       \* offset reported with "."
DOTDOT_OFFSET == 1    \* offset reported with ".."
CHILD_BASE == 2       \* offset + (no + 2)

None == [tag |-> "None"]
Some(v) == [tag |-> "Some", val |-> v]

\* ------------------------------------------------------------ environment
\* Sequences over S without repetition, of length at most 2.
Seqs2(S) == {<<>>} \cup {<<s>> : s \in S}
              \cup {p \in S \X S : p[1] # p[2]}

\* An introspection document as NodeInfo holds it (src/src/node.rs).
Doc(ns, is) == [tag |-> "Doc", nodes |-> ns, interfaces |-> is]
AccessDenied == [tag |-> "AccessDenied"]
Failed == [tag |-> "Error"]

\* An Interface as Interface::from_xml starts it: the name, no member yet.
Interface(name) ==
  [name |-> name, methods |-> <<>>, properties |-> <<>>, signals |-> <<>>,
   annotations |-> <<>>]

\* The interfaces the bus's documents declare.
EmptyInterfaces == {Interface(n) : n \in IfaceNames}

\* What a call of DbusFs::introspect can return: Ok(Some(node_info)),
\* Err(AccessDenied), or anything else (another error, a timeout, a reply
\* without a string).
\* make_inode and readdir read only the nodes of a document, so the
\* documents the callbacks of Spec are answered with declare no interface.
Outcomes == {Doc(ns, <<>>) : ns \in Seqs2(NodeNames)} \cup {AccessDenied, Failed}

\* The documents of an object that declares child nodes and interfaces.
ObjectDocs ==
  {Doc(ns, is) : ns \in Seqs2(NodeNames), is \in Seqs2(EmptyInterfaces)}

\* What DbusFs::list_names can return: Ok(names) or Err.
NamesResps == {[tag |-> "Ok", names |-> ns] : ns \in Seqs2(BusNames)}
                \cup {[tag |-> "Err"]}

\* ------------------------------------------------------------------ state
VARIABLES
  inodes,      \* DbusFs.inodes
  inode_attr,  \* DbusFs.inode_attr: ino -> FileAttr
  inode_name,  \* DbusFs.inode_name: ino -> (kind, bus, path, iface, member)
  last_inode,  \* DbusFs.last_inode
  last,        \* the callback that has just replied (arguments, wire calls,
               \* reply), or Idle between two callbacks
  issued,      \* history: every id taken from the counter, in order, with
               \* the path it was taken for
  first,       \* history: path -> ino of its first successful resolution
  origin,      \* history: ino -> the Introspect outcome it was committed from
  borrow,      \* the requests that hold the &mut self borrow of the DbusFs
  thr,         \* per request: where it stands in make_inode, and its locals
  input,       \* the introspection document text handed to NodeInfo::from_str
  parsed       \* what NodeInfo::from_str returned for it, or None before

vars == <<inodes, inode_attr, inode_name, last_inode, last, issued, first,
          origin, borrow, thr, input, parsed>>

\* The variables of the parser's view (SpecParse).
xml == <<input, parsed>>

\* The variables of the step-by-step view of make_inode (SpecConc).
conc == <<borrow, thr>>

\* The requests that may be pending at once.
Threads == {"t1", "t2"}

\* DbusFs.inodes is keyed by an inode id in make_inode and path_by_inode
\* (inodes.insert(ino, path), inodes.get(&ino)) and probed with a
\* (parent, name) pair in lookup (inodes.get((parent, name))).  The two key
\* shapes share the one table; the tag keeps them apart.
InoKey(ino) == <<"ino", ino>>
NameKey(parent, name) == <<"name", parent, name>>

\* FileAttr, the fields that vary: ino, kind, perm, nlink.
FileAttr(ino, kind, perm, nlink) ==
  [ino |-> ino, kind |-> kind, perm |-> perm, nlink |-> nlink]

ROOT_DIR == FileAttr(ROOT_INO, "Directory", PERM_DIR, ROOT_NLINK)

\* HashMap::insert: a present key is overwritten.
Insert(map, k, v) == (k :> v) @@ map

\* No callback is running: the session loop waits for the next request.
Idle == [op |-> "idle"]

Init ==
  /\ inodes = <<>>
  /\ inode_attr = <<>>
  /\ inode_name = <<>>
  /\ last_inode = FIRST_INO
  /\ last = Idle
  /\ issued = <<>>
  /\ first = <<>>
  /\ origin = <<>>
  /\ borrow = {}
  /\ thr = [t \in Threads |->
             [pc |-> "idle", path |-> <<>>, ino |-> 0, out |-> None,
              ret |-> None, raced |-> FALSE]]
  /\ input = None
  /\ parsed = None

\* ------------------------------------------------------------- make_inode
\* The part of the state make_inode works on, threaded through a callback:
\* the table, the counter, the wire calls made so far (wire) and the
\* history variables.
Fs == [inodes |-> inodes, inode_attr |-> inode_attr, last_inode |-> last_inode,
       wire |-> <<>>, issued |-> issued, first |-> first, origin |-> origin]

\* split_path: the first component is the bus name, the rest the object path.
SplitPath(path) ==
  IF path = <<>> THEN None
  ELSE Some([dest |-> Head(path), object |-> Tail(path)])

\* DbusFs::introspect(dest, object): the bus answers for that object.
Introspect(env, dest, object) == env[<<dest>> \o object]

\* Mutant of FindInode: the cache check never finds the path.
FindNothing(tbl, path) == {}

\* self.inodes.iter().find(|&(_, p)| p == path): the ids recorded with path.
FindInode(tbl, path) == {k \in DOMAIN tbl : tbl[k] = path}

\* Mutant of FetchAdd: the counter is read but not advanced.
FetchLoad(ino) == ino

\* last_inode.fetch_add(1): the counter after handing out `ino`.
FetchAdd(ino) == ino + 1

\* Mutant of NlinkPerm: an AccessDenied placeholder gets the mode of a
\* resolved directory.
NlinkPermOpen(out) ==
  IF out.tag \in {"Doc", "AccessDenied"}
  THEN Some([nlink |-> IF out.tag = "Doc" THEN Len(out.nodes) ELSE DENIED_NLINK,
             perm |-> PERM_DIR])
  ELSE None

\* Mutant of NlinkPerm: a hard failure is committed as an empty placeholder,
\* which caches the failure.
NlinkPermCacheFailure(out) ==
  IF out.tag = "Doc" THEN Some([nlink |-> Len(out.nodes), perm |-> PERM_DIR])
  ELSE Some([nlink |-> DENIED_NLINK, perm |-> PERM_DENIED])

\* (nlink, perm) of a new entry, from the Introspect outcome.
NlinkPerm(out) ==
  IF out.tag = "Doc" THEN Some([nlink |-> Len(out.nodes), perm |-> PERM_DIR])
  ELSE IF out.tag = "AccessDenied"
       THEN Some([nlink |-> DENIED_NLINK, perm |-> PERM_DENIED])
       ELSE None

\* The first successful resolution of a path is remembered (history).
NoteFirst(f, path, ino) == IF path \in DOMAIN f THEN f ELSE Insert(f, path, ino)

\* DbusFs::make_inode(path): [fs |-> the state after, ret |-> Option<&FileAttr>].
MakeInode(fs, path, env) ==
  LET hit == FindInode(fs.inodes, path) IN
  IF hit # {}
  THEN LET k == CHOOSE k \in hit : TRUE
           attr == fs.inode_attr[k[2]]
       IN [fs |-> [fs EXCEPT !.first = NoteFirst(@, path, attr.ino)],
           ret |-> Some(attr)]
  ELSE
    LET ino == fs.last_inode
        fs1 == [fs EXCEPT !.last_inode = FetchAdd(ino),
                          !.issued = Append(@, [ino |-> ino, path |-> path])]
        sp == SplitPath(path)
    IN IF sp.tag = "None" THEN [fs |-> fs1, ret |-> None]
       ELSE
         LET out == Introspect(env, sp.val.dest, sp.val.object)
             fs2 == [fs1 EXCEPT !.wire =
                       Append(@, [call |-> "Introspect", path |-> path,
                                  out |-> out, by |-> "make_inode"])]
             np == NlinkPerm(out)
         IN IF np.tag = "None" THEN [fs |-> fs2, ret |-> None]
            ELSE
              LET attr == FileAttr(ino, "Directory", np.val.perm, np.val.nlink)
              IN [fs |-> [fs2 EXCEPT
                            !.inodes = Insert(@, InoKey(ino), path),
                            !.inode_attr = Insert(@, ino, attr),
                            !.first = NoteFirst(@, path, ino),
                            !.origin = Insert(@, ino, out)],
                  ret |-> Some(attr)]

\* path_by_inode / attr_by_inode
PathByInode(tbl, ino) ==
  IF InoKey(ino) \in DOMAIN tbl THEN Some(tbl[InoKey(ino)]) ELSE None

AttrByInode(attrs, ino) ==
  IF ino \in DOMAIN attrs THEN Some(attrs[ino]) ELSE None

\* ---------------------------------------------------------------- readdir
\* ReplyDirectory: the entries added so far and the room of the buffer.
\* add() returns true when the buffer is full, and then adds nothing.
ReplyAdd(reply, ino, offset, kind, name) ==
  IF Len(reply.entries) < reply.cap
  THEN [reply |-> [reply EXCEPT !.entries =
                     Append(@, [ino |-> ino, offset |-> offset,
                                kind |-> kind, name |-> name])],
        full |-> FALSE]
  ELSE [reply |-> reply, full |-> TRUE]

\* list_dot_dirs: reply.add(".") || reply.add("..") at offset 0, else false.
ListDotDirs(ino, offset, reply) ==
  IF offset = 0
  THEN LET a == ReplyAdd(reply, ino, DOT_OFFSET, "Directory", ".") IN
       IF a.full THEN a
       ELSE ReplyAdd(a.reply, ino, DOTDOT_OFFSET, "Directory", "..")
  ELSE [reply |-> reply, full |-> FALSE]

\* Mutant of Skip: one item too many is skipped.
SkipOneMore(items, offset) == SubSeq(items, offset + 2, Len(items))

\* items.into_iter().skip(offset as usize)
Skip(items, offset) == SubSeq(items, offset + 1, Len(items))

\* The offset reported with the no-th entry of a listing started at offset.
EntryOffset(offset, no) == offset + (no + CHILD_BASE)

\* The loop over the children: make_inode on each, and reply.add on those it
\* resolves, until the buffer is full.
RECURSIVE ListLoop(_, _, _, _, _, _, _)
ListLoop(fs, reply, items, no, parent, offset, env) ==
  IF items = <<>> THEN [fs |-> fs, reply |-> reply]
  ELSE
    LET name == Head(items)
        r == MakeInode(fs, Append(parent, name), env)
    IN IF r.ret.tag = "Some"
       THEN LET a == ReplyAdd(reply, r.ret.val.ino, EntryOffset(offset, no),
                              r.ret.val.kind, name)
            IN IF a.full THEN [fs |-> r.fs, reply |-> a.reply]
               ELSE ListLoop(r.fs, a.reply, Tail(items), no + 1, parent,
                             offset, env)
       ELSE ListLoop(r.fs, reply, Tail(items), no + 1, parent, offset, env)

ReplyOk(reply) == [tag |-> "ok", entries |-> reply.entries]
ReplyError(errno) == [tag |-> "error", errno |-> errno]

\* One wire call a callback makes itself.
Wire(fs, call, path, out, by) ==
  [fs EXCEPT !.wire = Append(@, [call |-> call, path |-> path, out |-> out,
                                 by |-> by])]

\* readdir(1, ..): the root lists the bus names.
ReaddirRoot(fs, ino, offset, cap, top, env) ==
  LET d == ListDotDirs(ino, offset, [entries |-> <<>>, cap |-> cap]) IN
  IF d.full THEN [fs |-> fs, reply |-> ReplyOk(d.reply), items |-> None]
  ELSE
    LET fs1 == Wire(fs, "ListNames", <<>>, top, "readdir") IN
    IF top.tag = "Ok"
    THEN LET l == ListLoop(fs1, d.reply, Skip(top.names, offset), 0, <<>>,
                           offset, env)
         IN [fs |-> l.fs, reply |-> ReplyOk(l.reply), items |-> Some(top.names)]
    ELSE [fs |-> fs1, reply |-> ReplyError("ENOENT"), items |-> None]

\* readdir(ino, ..) of any other inode: the children of its document.
ReaddirDir(fs, ino, offset, cap, top, env) ==
  LET p == PathByInode(fs.inodes, ino) IN
  IF p.tag = "None" THEN [fs |-> fs, reply |-> ReplyError("ENOENT"), items |-> None]
  ELSE
    LET parent == p.val
        sp == SplitPath(parent)
    IN IF sp.tag = "None"
       THEN [fs |-> fs, reply |-> ReplyError("ENOENT"), items |-> None]
       ELSE
         LET fs1 == Wire(fs, "Introspect", parent, top, "readdir") IN
         IF top.tag = "Doc"
         THEN LET d == ListDotDirs(ino, offset, [entries |-> <<>>, cap |-> cap]) IN
              IF d.full \/ top.nodes = <<>>
              THEN [fs |-> fs1, reply |-> ReplyOk(d.reply),
                    items |-> Some(top.nodes)]
              ELSE LET l == ListLoop(fs1, d.reply, Skip(top.nodes, offset), 0,
                                     parent, offset, env)
                   IN [fs |-> l.fs, reply |-> ReplyOk(l.reply),
                       items |-> Some(top.nodes)]
         ELSE IF top.tag = "AccessDenied"
              THEN [fs |-> fs1, reply |-> ReplyError("EACCES"), items |-> None]
              ELSE [fs |-> fs1, reply |-> ReplyError("ENOENT"), items |-> None]

ReaddirResult(fs, ino, offset, cap, top, env) ==
  IF ino = ROOT_INO THEN ReaddirRoot(fs, ino, offset, cap, top, env)
  ELSE ReaddirDir(fs, ino, offset, cap, top, env)

\* The state a callback leaves: the table and counter, and the histories.
Commit(fs) ==
  /\ inodes' = fs.inodes
  /\ inode_attr' = fs.inode_attr
  /\ last_inode' = fs.last_inode
  /\ issued' = fs.issued
  /\ first' = fs.first
  /\ origin' = fs.origin
  /\ UNCHANGED <<conc, xml>>

\* The children a listing of `ino` may resolve, given what the first wire
\* call of the callback answered.
Children(ino, top) ==
  IF ino = ROOT_INO
  THEN IF top.tag = "Ok" THEN {<<top.names[i]>> : i \in DOMAIN top.names} ELSE {}
  ELSE LET p == PathByInode(inodes, ino) IN
       IF p.tag = "Some" /\ top.tag = "Doc"
       THEN {Append(p.val, top.nodes[i]) : i \in DOMAIN top.nodes}
       ELSE {}

\* The bus is asked only about the children the table does not hold.
Asked(ino, top) == {c \in Children(ino, top) : FindInode(inodes, c) = {}}

\* What the first wire call of readdir(ino) can answer: ListNames for the
\* root, Introspect of its object for a directory of the table.  No wire
\* call is made for an id the table does not hold.
Tops(ino) ==
  IF ino = ROOT_INO THEN NamesResps
  ELSE IF PathByInode(inodes, ino).tag = "Some" THEN Outcomes
  ELSE {Failed}

Inos == 1..MaxInode

Readdir(ino, offset, cap, top, env) ==
  \E r \in {ReaddirResult(Fs, ino, offset, cap, top, env)} :
  /\ last = Idle
  /\ r.fs.last_inode <= MaxInode
  /\ LET p == PathByInode(inodes, ino) IN
       p.tag = "Some" => Len(p.val) < MaxDepth
  /\ Commit(r.fs)
  /\ last' = [op |-> "readdir", ino |-> ino, offset |-> offset, cap |-> cap,
              top |-> top, items |-> r.items, wire |-> r.fs.wire,
              reply |-> r.reply]
  /\ UNCHANGED inode_name

\* ----------------------------------------------------------------- lookup
\* file_attr_dir / file_attr_file.  file_attr_file sets kind to
\* FileType::Directory as well.
FileAttrDir(ino) == FileAttr(ino, "Directory", PERM_DIR, DIR_NLINK)
FileAttrFile(ino) == FileAttr(ino, "Directory", PERM_FILE, FILE_NLINK)

ReplyEntry(attr) == [tag |-> "entry", attr |-> attr]
ReplyAttr(attr) == [tag |-> "attr", attr |-> attr]

\* seq.find(|n| n.name == name).is_some(), for nodes (held by name) and for
\* interfaces and members (records with a name).
HasNode(nodes, name) == \E i \in DOMAIN nodes : nodes[i] = name
HasNamed(seq, name) == \E i \in DOMAIN seq : seq[i].name = name

InodeName(kind, bus, path, iface, member) ==
  [kind |-> kind, bus |-> bus, path |-> path, iface |-> iface,
   member |-> member]

\* The match on the parent's NodeKind in lookup: the new entry's name tuple
\* and whether it is made by file_attr_file, or None when no arm yields one.
Classify(pn, info, name) ==
  IF pn.kind \in {"Destination", "ObjectPath"} /\ HasNode(info.nodes, name)
  THEN Some([file |-> FALSE,
             name |-> InodeName("ObjectPath", pn.bus, Append(pn.path, name),
                                None, None)])
  ELSE IF pn.kind = "ObjectPath" /\ HasNamed(info.interfaces, name)
  THEN Some([file |-> FALSE,
             name |-> InodeName("Interface", pn.bus, pn.path, Some(name),
                                None)])
  ELSE IF pn.kind = "Interface" /\ pn.iface.tag = "Some"
          /\ HasNamed(info.interfaces, pn.iface.val)
  THEN LET iface == info.interfaces[CHOOSE i \in DOMAIN info.interfaces :
                                      info.interfaces[i].name = pn.iface.val]
           kind == IF HasNamed(iface.methods, name) THEN "Method"
                   ELSE IF HasNamed(iface.properties, name) THEN "Property"
                   ELSE IF HasNamed(iface.signals, name) THEN "Signal"
                   ELSE IF name \in DOMAIN iface.annotations THEN "Annotation"
                   ELSE "None"
       IN IF kind = "None" THEN None
          ELSE Some([file |-> TRUE,
                     name |-> InodeName(kind, pn.bus, pn.path, pn.iface,
                                        Some(name))])
  ELSE None

\* The virtual path an inode_name tuple stands for.
NamePath(n) ==
  <<n.bus>> \o n.path
    \o (IF n.iface.tag = "Some" THEN <<n.iface.val>> ELSE <<>>)
    \o (IF n.member.tag = "Some" THEN <<n.member.val>> ELSE <<>>)

\* lookup(parent, name): [fs, names |-> inode_name after, reply].
LookupResult(fs, names, parent, name, env) ==
  LET key == NameKey(parent, name)
      cached == IF key \in DOMAIN fs.inodes
                THEN AttrByInode(fs.inode_attr, fs.inodes[key])
                ELSE None
      enoent == [fs |-> fs, names |-> names, reply |-> ReplyError("ENOENT")]
  IN IF cached.tag = "Some"
     THEN [fs |-> fs, names |-> names, reply |-> ReplyEntry(cached.val)]
     ELSE IF parent \notin DOMAIN names THEN enoent
     ELSE
       LET pn == names[parent]
           out == Introspect(env, pn.bus, pn.path)
           fs1 == Wire(fs, "Introspect", <<pn.bus>> \o pn.path, out, "lookup")
           m == IF out.tag = "Doc" THEN Classify(pn, out, name) ELSE None
       IN IF m.tag = "None" THEN [enoent EXCEPT !.fs = fs1]
          ELSE
            LET ino == fs1.last_inode
                attr == IF m.val.file THEN FileAttrFile(ino) ELSE FileAttrDir(ino)
                path == NamePath(m.val.name)
            IN [fs |-> [fs1 EXCEPT !.last_inode = FetchAdd(ino),
                                   !.issued = Append(@, [ino |-> ino,
                                                         path |-> path]),
                                   !.inode_attr = Insert(@, ino, attr),
                                   !.first = NoteFirst(@, path, ino)],
                names |-> Insert(names, ino, m.val.name),
                reply |-> ReplyEntry(attr)]

\* The virtual path of the child `name` of directory `parent`: the parent's
\* path joined with the name; the root's path is empty.
ChildPath(parent, name) ==
  IF parent = ROOT_INO THEN Some(<<name>>)
  ELSE LET p == PathByInode(inodes, parent) IN
       IF p.tag = "Some" THEN Some(Append(p.val, name)) ELSE None

\* The objects whose introspection bears on lookup(parent, name): the child,
\* and the parent as inode_name records it.
LookupPaths(parent, name) ==
  (IF ChildPath(parent, name).tag = "Some"
   THEN {ChildPath(parent, name).val} ELSE {})
  \cup (IF parent \in DOMAIN inode_name
        THEN {<<inode_name[parent].bus>> \o inode_name[parent].path} ELSE {})

Lookup(parent, name, env) ==
  \E r \in {LookupResult(Fs, inode_name, parent, name, env)} :
  /\ last = Idle
  /\ r.fs.last_inode <= MaxInode
  /\ Commit(r.fs)
  /\ inode_name' = r.names
  /\ last' = [op |-> "lookup", parent |-> parent, name |-> name,
              bus |-> env, wire |-> r.fs.wire, reply |-> r.reply]

\* ---------------------------------------------------------- getattr, read
\* Mutant of GetattrReply: the root is looked up in the table like any id.
GetattrFromTable(attrs, ino) ==
  LET a == AttrByInode(attrs, ino) IN
  IF a.tag = "Some" THEN ReplyAttr(a.val) ELSE ReplyError("ENOENT")

\* getattr: ROOT_DIR for id 1, else the table's attributes or ENOENT.
GetattrReply(attrs, ino) ==
  IF ino = ROOT_INO THEN ReplyAttr(ROOT_DIR)
  ELSE LET a == AttrByInode(attrs, ino) IN
       IF a.tag = "Some" THEN ReplyAttr(a.val) ELSE ReplyError("ENOENT")

Getattr(ino) ==
  /\ last = Idle
  /\ last' = [op |-> "getattr", ino |-> ino,
              reply |-> GetattrReply(inode_attr, ino)]
  /\ UNCHANGED <<inodes, inode_attr, inode_name, last_inode, issued, first,
                 origin, conc, xml>>

\* Mutant of ReadReply: the commented-out arm is live and serves bytes for
\* every id but the root.
ReadData(ino, offset, size) ==
  IF ino = ROOT_INO THEN ReplyError("ENOENT")
  ELSE [tag |-> "data", offset |-> offset]

ReadReply(ino, offset, size) == ReplyError("ENOENT")

Read(ino, offset, size) ==
  /\ last = Idle
  /\ last' = [op |-> "read", ino |-> ino, offset |-> offset, size |-> size,
              reply |-> ReadReply(ino, offset, size)]
  /\ UNCHANGED <<inodes, inode_attr, inode_name, last_inode, issued, first,
                 origin, conc, xml>>

\* The callback returns to the session loop of fuse::mount, which takes the
\* next request: the callbacks run one at a time.
Return ==
  /\ last # Idle
  /\ last' = Idle
  /\ UNCHANGED <<inodes, inode_attr, inode_name, last_inode, issued, first,
                 origin, conc, xml>>

\* ------------------------------------------------------------------- spec
\* A request is taken only between two callbacks.
Next ==
  \/ /\ last = Idle
     /\ \E ino \in Inos, offset \in 0..MaxOffset, cap \in 0..MaxCap :
          \E top \in Tops(ino) :
            \E env \in [Asked(ino, top) -> Outcomes] :
              Readdir(ino, offset, cap, top, env)
  \/ /\ last = Idle
     /\ \E parent \in Inos, name \in BusNames \cup NodeNames :
          \E env \in [LookupPaths(parent, name) -> Outcomes] :
            Lookup(parent, name, env)
  \/ /\ last = Idle
     /\ \E ino \in Inos : Getattr(ino)
  \/ /\ last = Idle
     /\ \E ino \in Inos, offset \in {0, 1}, size \in {0, 1} :
          Read(ino, offset, size)
  \/ Return

Spec == Init /\ [][Next]_vars

\* ------------------------------------------- make_inode, step by step
\* The same make_inode, one step at a time, for requests that are pending
\* at once.  A callback takes `&mut self`: a request enters make_inode only
\* while no other request holds the borrow, and holds it until it returns.

\* The paths the pending requests resolve.
ConcPaths == {<<n>> : n \in BusNames}

\* Mutant of Exclusive: a request enters whoever holds the borrow.
Shared(held) == TRUE

\* `&mut self`: the borrow is exclusive.
Exclusive(held) == held = {}

InFlight == {"waiting", "check", "alloc", "wire", "commit", "exit"}

\* What SpecConc leaves alone.
seq == <<inode_name, last, issued, first, origin, input, parsed>>

\* A request that resolves `path` reaches the filesystem.  raced: another
\* request for the same path, not yet in the table, is pending or running.
Arrive(t, path) ==
  /\ thr[t].pc \in {"idle", "done"}
  /\ thr' = [thr EXCEPT ![t] =
               [pc |-> "waiting", path |-> path, ino |-> 0, out |-> None,
                ret |-> None,
                raced |-> /\ FindInode(inodes, path) = {}
                          /\ \E u \in Threads \ {t} :
                               /\ thr[u].pc \in InFlight
                               /\ thr[u].path = path]]
  /\ UNCHANGED <<inodes, inode_attr, last_inode, borrow, seq>>

\* The callback is entered: it borrows the DbusFs.
Enter(t) ==
  /\ thr[t].pc = "waiting"
  /\ Exclusive(borrow)
  /\ borrow' = borrow \cup {t}
  /\ thr' = [thr EXCEPT ![t].pc = "check"]
  /\ UNCHANGED <<inodes, inode_attr, last_inode, seq>>

\* if let Some((ino, _)) = self.inodes.iter().find(..) { return .. }
Check(t) ==
  /\ thr[t].pc = "check"
  /\ LET hit == FindInode(inodes, thr[t].path) IN
     IF hit # {}
     THEN LET k == CHOOSE k \in hit : TRUE IN
          thr' = [thr EXCEPT ![t].pc = "exit",
                             ![t].ret = Some(inode_attr[k[2]].ino)]
     ELSE thr' = [thr EXCEPT ![t].pc = "alloc"]
  /\ UNCHANGED <<inodes, inode_attr, last_inode, borrow, seq>>

\* let ino = self.last_inode.fetch_add(1, ..)
Alloc(t) ==
  /\ thr[t].pc = "alloc"
  /\ last_inode < MaxInode
  /\ last_inode' = FetchAdd(last_inode)
  /\ thr' = [thr EXCEPT ![t].pc = "wire", ![t].ino = last_inode]
  /\ UNCHANGED <<inodes, inode_attr, borrow, seq>>

\* The Introspect round trip, and the match on its outcome.
WireCall(t, out) ==
  /\ thr[t].pc = "wire"
  /\ thr' = [thr EXCEPT ![t].out = out,
                        ![t].pc = IF NlinkPerm(out).tag = "None"
                                  THEN "exit" ELSE "commit"]
  /\ UNCHANGED <<inodes, inode_attr, last_inode, borrow, seq>>

\* self.inodes.insert(ino, path); self.inode_attr.insert(ino, attr)
CommitEntry(t) ==
  /\ thr[t].pc = "commit"
  /\ LET np == NlinkPerm(thr[t].out).val
         attr == FileAttr(thr[t].ino, "Directory", np.perm, np.nlink)
     IN /\ inodes' = Insert(inodes, InoKey(thr[t].ino), thr[t].path)
        /\ inode_attr' = Insert(inode_attr, thr[t].ino, attr)
  /\ thr' = [thr EXCEPT ![t].pc = "exit", ![t].ret = Some(thr[t].ino)]
  /\ UNCHANGED <<last_inode, borrow, seq>>

\* The callback returns: the borrow ends.
Exit(t) ==
  /\ thr[t].pc = "exit"
  /\ borrow' = borrow \ {t}
  /\ thr' = [thr EXCEPT ![t].pc = "done"]
  /\ UNCHANGED <<inodes, inode_attr, last_inode, seq>>

NextConc ==
  \/ \E t \in Threads, path \in ConcPaths : Arrive(t, path)
  \/ \E t \in Threads : Enter(t)
  \/ \E t \in Threads : Check(t)
  \/ \E t \in Threads : Alloc(t)
  \/ \E t \in Threads, out \in Outcomes : WireCall(t, out)
  \/ \E t \in Threads : CommitEntry(t)
  \/ \E t \in Threads : Exit(t)

SpecConc == Init /\ [][NextConc]_vars

\* ------------------------------------------------------------ the parser
\* src/src/node.rs.  A document text is read as xml-rs reads it: a sequence
\* of events, StartElement (tag, attributes) and EndElement (tag); where
\* the text stops being well-formed the reader yields one Err event and
\* ends.  Events the parser ignores everywhere (StartDocument, Characters,
\* EndDocument, ...) are left out.

\* An element of a document: its tag, its attributes (a set of
\* <<name, value>> pairs, no name twice) and its child elements.
Elem(tag, attrs, kids) == [tag |-> tag, attrs |-> attrs, kids |-> kids]

StartElement(tag, attrs) == [ev |-> "Start", tag |-> tag, attrs |-> attrs]
EndElement(tag) == [ev |-> "End", tag |-> tag]
ErrEvent == [ev |-> "Err"]

\* The events of an element, and of a sequence of elements.
RECURSIVE ElemEvents(_), SeqEvents(_)
ElemEvents(el) ==
  <<StartElement(el.tag, el.attrs)>> \o SeqEvents(el.kids)
    \o <<EndElement(el.tag)>>
SeqEvents(els) ==
  IF els = <<>> THEN <<>> ELSE ElemEvents(Head(els)) \o SeqEvents(Tail(els))

\* A document text: the root element, and how many of its events the
\* reader yields before the text stops being well-formed (all of them for
\* a well-formed text).
Text(root, cut) == [root |-> root, cut |-> cut]
WellFormed(text) == text.cut = Len(ElemEvents(text.root))

\* EventReader::from_str(s).into_iter()
Events(text) ==
  IF WellFormed(text) THEN ElemEvents(text.root)
  ELSE SubSeq(ElemEvents(text.root), 1, text.cut) \o <<ErrEvent>>

\* The value of the attribute `key`, if the element has it.
Attr(attrs, key) ==
  IF \E a \in attrs : a[1] = key
  THEN Some((CHOOSE a \in attrs : a[1] = key)[2])
  ELSE None

\* get_name / get_name_value
GetName(attrs) == Attr(attrs, "name")
GetNameValue(attrs) ==
  IF Attr(attrs, "name").tag = "Some" /\ Attr(attrs, "value").tag = "Some"
  THEN Some([name |-> Attr(attrs, "name").val,
             value |-> Attr(attrs, "value").val])
  ELSE None

\* Mutant of ArgumentFromXml: the direction starts as Out.
ArgumentDefaultOut(attrs) ==
  LET name == Attr(attrs, "name")
      typesig == Attr(attrs, "type")
      dir == IF Attr(attrs, "direction") = Some("in") THEN "In" ELSE "Out"
  IN IF name.tag = "Some" /\ typesig.tag = "Some"
     THEN Some([arg |-> [name |-> name.val, typesig |-> typesig.val],
                dir |-> dir])
     ELSE None

\* Argument::from_xml: (Argument, Direction), the direction In unless the
\* attribute says "out".
ArgumentFromXml(attrs) ==
  LET name == Attr(attrs, "name")
      typesig == Attr(attrs, "type")
      dir == IF Attr(attrs, "direction") = Some("out") THEN "Out" ELSE "In"
  IN IF name.tag = "Some" /\ typesig.tag = "Some"
     THEN Some([arg |-> [name |-> name.val, typesig |-> typesig.val],
                dir |-> dir])
     ELSE None

\* Property::from_xml: the access ReadWrite unless an `access` or a
\* `direction` attribute says "read" or "write".  (Were both attributes
\* present the later one would decide; the documents here carry one.)
PropertyFromXml(attrs) ==
  LET name == Attr(attrs, "name")
      typesig == Attr(attrs, "type")
      said == IF Attr(attrs, "access").tag = "Some" THEN Attr(attrs, "access")
              ELSE Attr(attrs, "direction")
      access == IF said = Some("read") THEN "Read"
                ELSE IF said = Some("write") THEN "Write"
                ELSE "ReadWrite"
  IN IF name.tag = "Some" /\ typesig.tag = "Some"
     THEN Some([name |-> name.val, typesig |-> typesig.val,
                access |-> access, annotations |-> <<>>])
     ELSE None

\* The result of a nested parse: the value and the events left.
Parsed(val, rest) == [val |-> val, rest |-> rest]

\* Method::from_xml: args and annotations up to the EndElement "method".
RECURSIVE MethodLoop(_, _)
MethodLoop(method, evs) ==
  IF evs = <<>> THEN Parsed(method, <<>>)
  ELSE
    LET ev == Head(evs)
        rest == Tail(evs)
    IN IF ev.ev = "Start" /\ ev.tag = "arg"
       THEN LET a == ArgumentFromXml(ev.attrs) IN
            MethodLoop(IF a.tag = "Some"
                       THEN [method EXCEPT !.args = Append(@, a.val)]
                       ELSE method, rest)
       ELSE IF ev.ev = "Start" /\ ev.tag = "annotation"
       THEN LET nv == GetNameValue(ev.attrs) IN
            MethodLoop(IF nv.tag = "Some"
                       THEN [method EXCEPT !.annotations =
                               Insert(@, nv.val.name, nv.val.value)]
                       ELSE method, rest)
       ELSE IF ev.ev = "End" /\ ev.tag = "method" THEN Parsed(method, rest)
       ELSE MethodLoop(method, rest)

MethodFromXml(name, evs) ==
  MethodLoop([name |-> name, args |-> <<>>, annotations |-> <<>>], evs)

\* Signal::from_xml: as Method::from_xml, up to the EndElement "signal";
\* of an arg only the Argument is kept.
RECURSIVE SignalLoop(_, _)
SignalLoop(signal, evs) ==
  IF evs = <<>> THEN Parsed(signal, <<>>)
  ELSE
    LET ev == Head(evs)
        rest == Tail(evs)
    IN IF ev.ev = "Start" /\ ev.tag = "arg"
       THEN LET a == ArgumentFromXml(ev.attrs) IN
            SignalLoop(IF a.tag = "Some"
                       THEN [signal EXCEPT !.args = Append(@, a.val.arg)]
                       ELSE signal, rest)
       ELSE IF ev.ev = "Start" /\ ev.tag = "annotation"
       THEN LET nv == GetNameValue(ev.attrs) IN
            SignalLoop(IF nv.tag = "Some"
                       THEN [signal EXCEPT !.annotations =
                               Insert(@, nv.val.name, nv.val.value)]
                       ELSE signal, rest)
       ELSE IF ev.ev = "End" /\ ev.tag = "signal" THEN Parsed(signal, rest)
       ELSE SignalLoop(signal, rest)

SignalFromXml(name, evs) ==
  SignalLoop([name |-> name, args |-> <<>>, annotations |-> <<>>], evs)

\* The tag Interface::from_xml matches for a signal.
SignalTag == "signals"

\* Interface::from_xml: the members up to the EndElement "interface".
RECURSIVE InterfaceLoop(_, _)
InterfaceLoop(iface, evs) ==
  IF evs = <<>> THEN Parsed(iface, <<>>)
  ELSE
    LET ev == Head(evs)
        rest == Tail(evs)
    IN IF ev.ev = "Start" /\ ev.tag = "method"
       THEN IF GetName(ev.attrs).tag = "Some"
            THEN LET m == MethodFromXml(GetName(ev.attrs).val, rest) IN
                 InterfaceLoop([iface EXCEPT !.methods = Append(@, m.val)],
                               m.rest)
            ELSE InterfaceLoop(iface, rest)
       ELSE IF ev.ev = "Start" /\ ev.tag = SignalTag
       THEN IF GetName(ev.attrs).tag = "Some"
            THEN LET g == SignalFromXml(GetName(ev.attrs).val, rest) IN
                 InterfaceLoop([iface EXCEPT !.signals = Append(@, g.val)],
                               g.rest)
            ELSE InterfaceLoop(iface, rest)
       ELSE IF ev.ev = "Start" /\ ev.tag = "property"
       THEN LET q == PropertyFromXml(ev.attrs) IN
            InterfaceLoop(IF q.tag = "Some"
                          THEN [iface EXCEPT !.properties = Append(@, q.val)]
                          ELSE iface, rest)
       ELSE IF ev.ev = "Start" /\ ev.tag = "annotation"
       THEN LET nv == GetNameValue(ev.attrs) IN
            InterfaceLoop(IF nv.tag = "Some"
                          THEN [iface EXCEPT !.annotations =
                                  Insert(@, nv.val.name, nv.val.value)]
                          ELSE iface, rest)
       ELSE IF ev.ev = "End" /\ ev.tag = "interface" THEN Parsed(iface, rest)
       ELSE InterfaceLoop(iface, rest)

InterfaceFromXml(name, evs) == InterfaceLoop(Interface(name), evs)

\* NodeInfo::from_xml: every `node` and `interface` element that has a name,
\* to the end of the events; an Err event is passed over like any event
\* that is no StartElement.
RECURSIVE NodeInfoLoop(_, _)
NodeInfoLoop(nodeinfo, evs) ==
  IF evs = <<>> THEN nodeinfo
  ELSE
    LET ev == Head(evs)
        rest == Tail(evs)
    IN IF ev.ev = "Start" /\ ev.tag = "node"
       THEN NodeInfoLoop(IF GetName(ev.attrs).tag = "Some"
                         THEN [nodeinfo EXCEPT !.nodes =
                                 Append(@, GetName(ev.attrs).val)]
                         ELSE nodeinfo, rest)
       ELSE IF ev.ev = "Start" /\ ev.tag = "interface"
       THEN IF GetName(ev.attrs).tag = "Some"
            THEN LET f == InterfaceFromXml(GetName(ev.attrs).val, rest) IN
                 NodeInfoLoop([nodeinfo EXCEPT !.interfaces =
                                 Append(@, f.val)], f.rest)
            ELSE NodeInfoLoop(nodeinfo, rest)
       ELSE NodeInfoLoop(nodeinfo, rest)

NodeInfoFromXml(evs) == NodeInfoLoop(Doc(<<>>, <<>>), evs)

\* impl FromStr for NodeInfo: Result<NodeInfo, ()>.
FromStr(text) == [tag |-> "Ok", val |-> NodeInfoFromXml(Events(text))]

\* DbusFs::introspect on a reply that carries the string s: s.parse().ok(),
\* which make_inode and readdir match as a document or as a failure.
IntrospectReply(text) ==
  LET r == FromStr(text) IN IF r.tag = "Ok" THEN r.val ELSE Failed

\* The document texts the parser is given.
NameType == {<<"name", "n">>, <<"type", "s">>}
ArgPlain == Elem("arg", NameType, <<>>)
ArgIn == Elem("arg", NameType \cup {<<"direction", "in">>}, <<>>)
ArgOut == Elem("arg", NameType \cup {<<"direction", "out">>}, <<>>)
ArgNoType == Elem("arg", {<<"name", "n">>}, <<>>)
Annotation(name) == Elem("annotation", {<<"name", name>>, <<"value", "v">>}, <<>>)
AnnInner == Annotation("inner")
AnnOuter == Annotation("outer")

MethodEls ==
  {Elem("method", {<<"name", "m">>}, kids) :
     kids \in {<<>>, <<ArgPlain>>, <<ArgIn>>, <<ArgOut>>, <<ArgNoType>>,
               <<ArgPlain, AnnInner>>}}
    \cup {Elem("method", {}, kids) : kids \in {<<>>, <<ArgPlain, AnnInner>>}}

SignalEls ==
  {Elem("signal", {<<"name", "s">>}, kids) :
     kids \in {<<>>, <<ArgPlain>>, <<ArgPlain, AnnInner>>}}
    \cup {Elem("signal", {}, <<AnnInner>>)}

PropertyEls ==
  {Elem("property", attrs, <<>>) :
     attrs \in {NameType,
                NameType \cup {<<"access", "read">>},
                NameType \cup {<<"access", "write">>},
                NameType \cup {<<"direction", "read">>},
                {<<"name", "n">>}}}
    \cup {Elem("property", NameType, <<AnnInner>>)}

MemberEls == MethodEls \cup SignalEls \cup PropertyEls \cup {AnnOuter}

\* Sequences over S of length at most n.
RECURSIVE SeqsUpTo(_, _)
SeqsUpTo(S, n) ==
  IF n = 0 THEN {<<>>}
  ELSE LET shorter == SeqsUpTo(S, n - 1) IN
       shorter \cup {Append(q, x) : q \in shorter, x \in S}

InterfaceEls ==
  {Elem("interface", {<<"name", n>>}, kids) :
     n \in IfaceNames, kids \in SeqsUpTo(MemberEls, MaxMembers)}

ChildNodeEls == {Elem("node", {<<"name", n>>}, <<>>) : n \in NodeNames}

\* The root element comes without a name or with one (the object's path).
RootAttrs == {{}, {<<"name", "r">>}}

RootEls ==
  {Elem("node", attrs, kids) :
     attrs \in RootAttrs,
     kids \in {<<>>} \cup {<<c>> : c \in ChildNodeEls}
                \cup {<<f>> : f \in InterfaceEls}
                \cup {<<c, f>> : c \in ChildNodeEls, f \in InterfaceEls}
                \cup {<<f, c>> : c \in ChildNodeEls, f \in InterfaceEls}}

\* Where the text of a root element may stop being well-formed: after any
\* number of its events, or nowhere.
Cuts(root) == 0..Len(ElemEvents(root))

\* The Introspect reply arrives: a text to parse.
Receive(text) ==
  /\ input = None
  /\ input' = Some(text)
  /\ parsed' = None
  /\ UNCHANGED <<inodes, inode_attr, inode_name, last_inode, last, issued,
                 first, origin, conc>>

\* s.parse()
Parse ==
  /\ input # None
  /\ parsed = None
  /\ parsed' = Some(FromStr(input.val))
  /\ UNCHANGED <<inodes, inode_attr, inode_name, last_inode, last, issued,
                 first, origin, conc, input>>

\* The parsed document has been used: the next reply may arrive.
Drop ==
  /\ parsed # None
  /\ input' = None
  /\ parsed' = None
  /\ UNCHANGED <<inodes, inode_attr, inode_name, last_inode, last, issued,
                 first, origin, conc>>

NextParse ==
  \/ (input = None /\ \E root \in RootEls : \E cut \in Cuts(root) :
                         Receive(Text(root, cut)))
  \/ Parse
  \/ Drop

SpecParse == Init /\ [][NextParse]_vars

\* ------------------------------------------------------- reading a reply
Dots == <<".", "..">>

\* The names of the entries of a listing, in the order delivered.
EntryNames(entries) == [i \in DOMAIN entries |-> entries[i].name]

\* The children among the entries: all but "." and "..".
ChildEntries(entries) == SelectSeq(entries, LAMBDA e : e.name \notin {".", ".."})

\* Whether `last` is a readdir that replied ok.
ListedOk == last.op = "readdir" /\ last.reply.tag = "ok"

\* Whether a make_inode of the callback `last` asked the bus about `path`
\* and was answered by a hard failure.
HardFailed(path) ==
  \E i \in DOMAIN last.wire :
    /\ last.wire[i].by = "make_inode"
    /\ last.wire[i].path = path
    /\ last.wire[i].out.tag = "Error"

\* A directory-kind attribute reply with the given mode and link count.
IsDirAttr(reply, perm, nlink) ==
  /\ reply.tag \in {"attr", "entry"}
  /\ reply.attr.kind = "Directory"
  /\ reply.attr.perm = perm
  /\ reply.attr.nlink = nlink

\* ----------------------------------------------------------------- claims

\* C1 (idempotent allocation): every resolution of a path p, through a
\* listing or through lookup, reports the inode id of the first successful
\* resolution of p.
C1_IdempotentAllocation ==
  /\ ListedOk =>
       \A i \in DOMAIN last.reply.entries :
         LET e == last.reply.entries[i]
             p == ChildPath(last.ino, e.name)
         IN e.name \notin {".", ".."} =>
              /\ p.tag = "Some"
              /\ p.val \in DOMAIN first
              /\ first[p.val] = e.ino
  /\ last.op = "lookup" =>
       LET p == ChildPath(last.parent, last.name) IN
       (p.tag = "Some" /\ p.val \in DOMAIN first) =>
         /\ last.reply.tag = "entry"
         /\ last.reply.attr.ino = first[p.val]

\* C2 (uniqueness, no reuse): no id is taken from the counter twice, so no
\* id goes to two paths; every id taken is above the root id 1; the ids are
\* taken in increasing order and the counter stays above all of them, also
\* across resolutions that fail; and the counter never decreases.
C2_Issued ==
  /\ \A i, j \in DOMAIN issued : i < j => issued[i].ino < issued[j].ino
  /\ \A i \in DOMAIN issued :
       issued[i].ino > ROOT_INO /\ issued[i].ino < last_inode
  /\ \A k \in DOMAIN inodes :
       \E i \in DOMAIN issued :
         issued[i].ino = k[2] /\ issued[i].path = inodes[k]

C2_UniqueNoReuse == [](C2_Issued) /\ [][last_inode' >= last_inode]_vars

\* C2 witness: two paths are committed and one more id was taken by a
\* resolution that failed.
C2_Witness ==
  /\ Cardinality(DOMAIN inodes) >= 2
  /\ Len(issued) > Cardinality(DOMAIN inodes)

\* C3 (listing/lookup consistency): for every child name n that a listing
\* of h at offset 0 yields with id i, the lookup(h, n) made next, whatever
\* the bus answers, replies an entry whose id is i.
C3_ListingLookup ==
  (ListedOk /\ last.offset = 0) =>
    \A i \in DOMAIN last.reply.entries :
      LET e == last.reply.entries[i] IN
      e.name \notin {".", ".."} =>
        \A env \in [LookupPaths(last.ino, e.name) -> Outcomes] :
          LET r == LookupResult(Fs, inode_name, last.ino, e.name, env).reply
          IN r.tag = "entry" /\ r.attr.ino = e.ino

\* C4 (AccessDenied materialization): when the bus answers AccessDenied for
\* the object parent path + name, not resolved before, lookup(parent, name)
\* replies an entry of kind directory, mode 0750 and link count 0, and
\* getattr on its id replies the same attributes.
C4_AccessDeniedLookup ==
  LET p == ChildPath(last.parent, last.name) IN
  (/\ last.op = "lookup"
   /\ p.tag = "Some"
   /\ p.val \notin DOMAIN first
   /\ last.bus[p.val] = AccessDenied) =>
    /\ IsDirAttr(last.reply, PERM_DENIED, DENIED_NLINK)
    /\ GetattrReply(inode_attr, last.reply.attr.ino) = ReplyAttr(last.reply.attr)

\* C5 (concurrent first access): whatever the order in which requests that
\* resolve the same path at once take their steps, the table holds at most
\* one entry for the path, and every request that has returned, unless its
\* own Introspect hard-failed, returned the id of the one entry committed
\* for the path.
C5_ConcurrentFirstAccess ==
  \A p \in ConcPaths :
    /\ Cardinality(FindInode(inodes, p)) <= 1
    /\ \A t \in Threads :
         (thr[t].pc = "done" /\ thr[t].path = p /\ thr[t].out # Failed) =>
           /\ thr[t].ret.tag = "Some"
           /\ FindInode(inodes, p) = {InoKey(thr[t].ret.val)}

\* C5 witness: two requests for one path, the second arrived while the
\* first was pending and the path not in the table, have both returned it.
C5_Witness ==
  \E t \in Threads : \E u \in Threads \ {t} :
    /\ thr[t].pc = "done" /\ thr[u].pc = "done"
    /\ thr[t].path = thr[u].path
    /\ thr[t].ret.tag = "Some" /\ thr[u].ret.tag = "Some"
    /\ thr[u].raced

\* C6 (resumable listing): a listing at offset 0 that delivered at least one
\* entry and resolved every child it asked about, followed by a listing of
\* the same directory (same wire children, all resolvable, room for all)
\* started at the offset reported with the last delivered entry, delivers
\* between the two calls exactly ".", "..", c_0, ..., c_{n-1} in order.
C6_ResumableListing ==
  (/\ ListedOk
   /\ last.offset = 0
   /\ last.items.tag = "Some"
   /\ last.reply.entries # <<>>
   /\ \A i \in DOMAIN last.wire : last.wire[i].out.tag # "Error") =>
    LET items == last.items.val
        es == last.reply.entries
        resume == es[Len(es)].offset
    IN \A env \in [Asked(last.ino, last.top) -> Outcomes \ {Failed}] :
         LET second == ReaddirResult(Fs, last.ino, resume, Len(items) + 2,
                                     last.top, env).reply
         IN /\ second.tag = "ok"
            /\ EntryNames(es) \o EntryNames(second.entries) = Dots \o items

\* A listing of the root at offset 0 for which ListNames succeeded and the
\* reply buffer had room for every entry.
RootListedAll ==
  /\ last.op = "readdir"
  /\ last.ino = ROOT_INO
  /\ last.offset = 0
  /\ last.top.tag = "Ok"
  /\ last.cap >= Len(last.top.names) + 2

AllDirectories(entries) ==
  \A i \in DOMAIN entries : entries[i].kind = "Directory"

\* C7 as stated (root listing completeness): such a listing yields ".", ".."
\* and then one directory entry for every name of N, in the order of N.
C7_RootListsEveryName ==
  RootListedAll =>
    /\ last.reply.tag = "ok"
    /\ EntryNames(last.reply.entries) = Dots \o last.top.names
    /\ AllDirectories(last.reply.entries)

\* C7 as amended: such a listing yields ".", ".." and then one directory
\* entry for every name of N whose resolution did not hard-fail (the name is
\* in the table already, or Introspect answers a document or AccessDenied),
\* in the order of N; a name whose Introspect hard-fails is left out.
C7_RootListsResolvedNames ==
  RootListedAll =>
    /\ last.reply.tag = "ok"
    /\ EntryNames(last.reply.entries) =
         Dots \o SelectSeq(last.top.names, LAMBDA n : ~HardFailed(<<n>>))
    /\ AllDirectories(last.reply.entries)

\* C7 witness: a full root listing of two names, one of which hard-failed.
C7_Witness ==
  /\ RootListedAll
  /\ Len(last.top.names) = 2
  /\ Len(last.reply.entries) = 3
  /\ \E i \in DOMAIN last.top.names : HardFailed(<<last.top.names[i]>>)

\* A listing of a directory that was committed from an AccessDenied
\* introspection and whose introspection answers AccessDenied again.
DeniedListing ==
  /\ last.op = "readdir"
  /\ last.ino # ROOT_INO
  /\ last.ino \in DOMAIN origin
  /\ origin[last.ino] = AccessDenied
  /\ last.top = AccessDenied

\* C8 as stated (listing an access-denied directory): the listing ends ok
\* with no child, and getattr reports a directory, mode 0750, link count 0.
C8_DeniedListingOk ==
  DeniedListing =>
    /\ last.reply.tag = "ok"
    /\ ChildEntries(last.reply.entries) = <<>>
    /\ IsDirAttr(GetattrReply(inode_attr, last.ino), PERM_DENIED, DENIED_NLINK)

\* C8 as amended: the listing delivers no entry and ends with the error
\* EACCES, and getattr reports a directory, mode 0750, link count 0.
C8_DeniedListingEacces ==
  DeniedListing =>
    /\ last.reply = ReplyError("EACCES")
    /\ IsDirAttr(GetattrReply(inode_attr, last.ino), PERM_DENIED, DENIED_NLINK)

\* C8 witness: such a listing has been made.
C8_Witness == DeniedListing

\* C9 (root stability): getattr(1) replies a directory with link count 2
\* whatever the table holds, and id 1 is never taken from the counter nor
\* committed to the table.
C9_RootStable ==
  /\ IsDirAttr(GetattrReply(inode_attr, ROOT_INO), PERM_DIR, ROOT_NLINK)
  /\ (last.op = "getattr" /\ last.ino = ROOT_INO) =>
       /\ IsDirAttr(last.reply, PERM_DIR, ROOT_NLINK)
       /\ last.reply.attr.ino = ROOT_INO
  /\ InoKey(ROOT_INO) \notin DOMAIN inodes
  /\ ROOT_INO \notin DOMAIN inode_attr
  /\ \A i \in DOMAIN issued : issued[i].ino # ROOT_INO

\* C9 witness: getattr(1) has replied while the table holds entries.
C9_Witness ==
  /\ last.op = "getattr"
  /\ last.ino = ROOT_INO
  /\ Cardinality(DOMAIN inodes) >= 2

\* C10 (link count of a resolved directory): an entry committed from a
\* document has mode 0755 and link count 2 + the number of children the
\* document declares.
C10_LinkCount ==
  \A ino \in DOMAIN origin :
    origin[ino].tag = "Doc" =>
      /\ inode_attr[ino].perm = PERM_DIR
      /\ inode_attr[ino].nlink = 2 + Len(origin[ino].nodes)

C14_ReadInert ==
  /\ [](last.op = "read" => last.reply = ReplyError("ENOENT"))
  /\ [][last'.op = "read" =>
          /\ inodes' = inodes
          /\ inode_attr' = inode_attr
          /\ inode_name' = inode_name
          /\ last_inode' = last_inode]_vars

\* C14 witness: a read of a committed id has replied.
C14_Witness ==
  /\ last.op = "read"
  /\ InoKey(last.ino) \in DOMAIN inodes
  /\ last.offset = 1

\* C16 (table bijection): every non-root id that getattr answers has a path
\* recorded in the table, which path_by_inode returns; every id of the
\* table has attributes, under its own id; and no two ids of the table are
\* recorded with the same path.
C16_TableBijection ==
  /\ \A ino \in Inos \ {ROOT_INO} :
       GetattrReply(inode_attr, ino).tag = "attr" =>
         PathByInode(inodes, ino).tag = "Some"
  /\ \A k \in DOMAIN inodes :
       /\ AttrByInode(inode_attr, k[2]).tag = "Some"
       /\ inode_attr[k[2]].ino = k[2]
  /\ \A k1, k2 \in DOMAIN inodes : inodes[k1] = inodes[k2] => k1 = k2

\* C16 witness: getattr has answered a non-root id while the table holds
\* three entries.
C16_Witness ==
  /\ last.op = "getattr"
  /\ last.ino # ROOT_INO
  /\ last.reply.tag = "attr"
  /\ Cardinality(DOMAIN inodes) >= 3

\* C18 (member entries are leaves): the attributes made for a method,
\* property, signal or annotation (file_attr_file) have kind regular file,
\* mode 0644 and link count 1, while the attributes made for a bus name or
\* an object (make_inode) and for an object or interface found by lookup
\* (file_attr_dir) have kind directory.
C18_MemberLeaves ==
  /\ \A ino \in Inos \ {ROOT_INO} :
       /\ FileAttrFile(ino).kind = "RegularFile"
       /\ FileAttrFile(ino).perm = PERM_FILE
       /\ FileAttrFile(ino).nlink = FILE_NLINK
       /\ FileAttrDir(ino).kind = "Directory"
  /\ \A ino \in DOMAIN inode_attr : inode_attr[ino].kind = "Directory"

\* C19 (wire call outside the exclusive section): a request whose
\* Introspect round trip is in flight does not hold the exclusive borrow, so
\* a request that waits to enter a callback can enter meanwhile.
C19_WireOutsideBorrow ==
  \A t \in Threads :
    thr[t].pc = "wire" =>
      /\ t \notin borrow
      /\ \A u \in Threads \ {t} : thr[u].pc = "waiting" => Exclusive(borrow)

\* The names of the interfaces of a document, in document order.
InterfaceNames(doc) == [i \in DOMAIN doc.interfaces |-> doc.interfaces[i].name]

\* C11 (object directory children): for a committed object directory (a
\* path of a bus name and at least one object segment) whose introspection
\* answers a document with child nodes C and interfaces I, all children
\* resolvable, a listing at offset 0 with room for all yields ".", "..",
\* one entry per element of C and one entry per element of I, and the lookup
\* of each name of C or I under the directory made next replies a directory
\* entry.
C11_ObjectChildren ==
  \A ino \in Inos \ {ROOT_INO} :
    LET p == PathByInode(inodes, ino) IN
    (p.tag = "Some" /\ Len(p.val) >= 2) =>
      \A top \in ObjectDocs :
        \A env \in [Asked(ino, top) -> Outcomes \ {Failed}] :
          LET r == ReaddirResult(Fs, ino, 0,
                                 2 + Len(top.nodes) + Len(top.interfaces),
                                 top, env)
              names == top.nodes \o InterfaceNames(top)
          IN /\ r.reply.tag = "ok"
             /\ EntryNames(r.reply.entries) = Dots \o names
             /\ \A i \in DOMAIN names :
                  \A bus \in [LookupPaths(ino, names[i]) -> ObjectDocs] :
                    LET l == LookupResult(r.fs, inode_name, ino, names[i],
                                          bus).reply
                    IN l.tag = "entry" /\ l.attr.kind = "Directory"

\* ------------------------------------------------- reading a parsed text
\* The NodeInfo the parser returned.
ParsedInfo == parsed.val.val

\* A well-formed text has been parsed.
ParsedWellFormed == parsed # None /\ WellFormed(input.val)

Named(el) == GetName(el.attrs).tag = "Some"
KidsTagged(el, tag) == SelectSeq(el.kids, LAMBDA k : k.tag = tag)

\* The interface elements of the text that have a name, in document order:
\* the parser returns one Interface for each.
InterfaceElsOf(text) ==
  SelectSeq(KidsTagged(text.root, "interface"), Named)

\* The `arg` children of an element that have a name and a type.
ArgElsOf(el) ==
  SelectSeq(KidsTagged(el, "arg"),
            LAMBDA k : Attr(k.attrs, "name").tag = "Some"
                       /\ Attr(k.attrs, "type").tag = "Some")

\* The `property` children of an interface element that have a name and a
\* type.
PropertyElsOf(el) ==
  SelectSeq(KidsTagged(el, "property"),
            LAMBDA k : Attr(k.attrs, "name").tag = "Some"
                       /\ Attr(k.attrs, "type").tag = "Some")

\* A malformed text has been parsed.
ParsedMalformed == parsed # None /\ ~WellFormed(input.val)

\* C13 (a malformed document is a failure): when the text of an Introspect
\* reply is not well-formed, the parse reports a failure, introspection
\* answers a failure, and resolving a path with that reply returns no entry
\* and commits none.
C13_MalformedFails ==
  ParsedMalformed =>
    /\ parsed.val.tag = "Err"
    /\ IntrospectReply(input.val) = Failed
    /\ \A b \in BusNames :
         LET r == MakeInode(Fs, <<b>>, [q \in {<<b>>} |-> IntrospectReply(input.val)])
         IN r.ret = None /\ r.fs.inodes = inodes /\ r.fs.inode_attr = inode_attr

\* What the parser returned agrees, element by element, with the named
\* interfaces, their named methods and their complete properties.
ParsedShape ==
  LET els == InterfaceElsOf(input.val) IN
  /\ Len(ParsedInfo.interfaces) = Len(els)
  /\ \A i \in DOMAIN els :
       LET methods == SelectSeq(KidsTagged(els[i], "method"), Named) IN
       /\ Len(ParsedInfo.interfaces[i].methods) = Len(methods)
       /\ \A j \in DOMAIN methods :
            Len(ParsedInfo.interfaces[i].methods[j].args)
              = Len(ArgElsOf(methods[j]))
       /\ Len(ParsedInfo.interfaces[i].properties) = Len(PropertyElsOf(els[i]))

\* The parsed direction of every `arg` of a method that has a name and a
\* type and no `direction` attribute is In.
ArgDefaultsIn ==
  LET els == InterfaceElsOf(input.val) IN
  \A i \in DOMAIN els :
    LET methods == SelectSeq(KidsTagged(els[i], "method"), Named) IN
    \A j \in DOMAIN methods :
      LET args == ArgElsOf(methods[j]) IN
      \A k \in DOMAIN args :
        Attr(args[k].attrs, "direction").tag = "None" =>
          ParsedInfo.interfaces[i].methods[j].args[k].dir = "In"

\* C15 as stated (parser defaults): an `arg` with name and type and no
\* `direction` is parsed with direction In, and a `property` with name and
\* type and no `access` is parsed with access ReadWrite.
C15_Defaults ==
  ParsedWellFormed =>
    /\ ParsedShape
    /\ ArgDefaultsIn
    /\ LET els == InterfaceElsOf(input.val) IN
       \A i \in DOMAIN els :
         LET props == PropertyElsOf(els[i]) IN
         \A j \in DOMAIN props :
           Attr(props[j].attrs, "access").tag = "None" =>
             ParsedInfo.interfaces[i].properties[j].access = "ReadWrite"

\* C15 as amended: an `arg` with name and type and no `direction` is parsed
\* with direction In, and a `property` with name and type and neither an
\* `access` nor a `direction` attribute is parsed with access ReadWrite; a
\* `direction` attribute of a property is read as its access.
C15_DefaultsUnlessDirection ==
  ParsedWellFormed =>
    /\ ParsedShape
    /\ ArgDefaultsIn
    /\ LET els == InterfaceElsOf(input.val) IN
       \A i \in DOMAIN els :
         LET props == PropertyElsOf(els[i]) IN
         \A j \in DOMAIN props :
           LET said == Attr(props[j].attrs, "direction")
               access == ParsedInfo.interfaces[i].properties[j].access
           IN IF Attr(props[j].attrs, "access").tag = "Some" THEN TRUE
              ELSE IF said.tag = "None" THEN access = "ReadWrite"
              ELSE access = (IF said.val = "read" THEN "Read"
                             ELSE IF said.val = "write" THEN "Write"
                             ELSE "ReadWrite")

\* C15 witness: an interface with a method whose `arg` has no direction and
\* a property with a `direction` and no `access` has been parsed.
C15_Witness ==
  /\ ParsedWellFormed
  /\ \E i \in DOMAIN InterfaceElsOf(input.val) :
       LET el == InterfaceElsOf(input.val)[i] IN
       /\ \E j \in DOMAIN el.kids :
            /\ el.kids[j].tag = "method"
            /\ Named(el.kids[j])
            /\ \E k \in DOMAIN ArgElsOf(el.kids[j]) :
                 Attr(ArgElsOf(el.kids[j])[k].attrs, "direction").tag = "None"
       /\ \E j \in DOMAIN PropertyElsOf(el) :
            /\ Attr(PropertyElsOf(el)[j].attrs, "access").tag = "None"
            /\ Attr(PropertyElsOf(el)[j].attrs, "direction").tag = "Some"

\* The signals a document declares in an interface element: one for each
\* `signal` child that has a name, with its complete `arg` children.
DeclaredSignals(el) ==
  LET sigs == SelectSeq(KidsTagged(el, "signal"), Named) IN
  [j \in DOMAIN sigs |->
     [name |-> GetName(sigs[j].attrs).val,
      args |-> [k \in DOMAIN ArgElsOf(sigs[j]) |->
                  ArgumentFromXml(ArgElsOf(sigs[j])[k].attrs).val.arg]]]

\* C17 (signal members are parsed): for every interface element, every
\* `signal` child with a name yields one Signal of the interface, in
\* document order, with its `arg` children as arguments.
C17_SignalsParsed ==
  ParsedWellFormed =>
    LET els == InterfaceElsOf(input.val) IN
    /\ Len(ParsedInfo.interfaces) = Len(els)
    /\ \A i \in DOMAIN els :
         LET got == ParsedInfo.interfaces[i].signals IN
         [j \in DOMAIN got |-> [name |-> got[j].name, args |-> got[j].args]]
           = DeclaredSignals(els[i])

\* The annotations a document declares for an interface: its `annotation`
\* children that have a name and a value.
DeclaredAnnotations(el) ==
  {GetNameValue(k.attrs).val.name :
     k \in {el.kids[j] : j \in {j \in DOMAIN el.kids :
                                  /\ el.kids[j].tag = "annotation"
                                  /\ GetNameValue(el.kids[j].attrs).tag = "Some"}}}

\* C20 (dropped elements do not leak): the annotations of a parsed
\* interface are exactly the `annotation` elements that are direct children
\* of the interface element, whatever a nameless method or signal or a
\* property carries, and the named methods and the complete properties that
\* follow are parsed.
C20_NoLeak ==
  ParsedWellFormed =>
    LET els == InterfaceElsOf(input.val) IN
    /\ Len(ParsedInfo.interfaces) = Len(els)
    /\ \A i \in DOMAIN els :
         /\ DOMAIN ParsedInfo.interfaces[i].annotations
              = DeclaredAnnotations(els[i])
         /\ Len(ParsedInfo.interfaces[i].methods)
              = Len(SelectSeq(KidsTagged(els[i], "method"), Named))
         /\ Len(ParsedInfo.interfaces[i].properties)
              = Len(PropertyElsOf(els[i]))

\* The child nodes a document declares: the names of the named `node`
\* elements nested in its root element, in document order.
DeclaredNodes(text) ==
  LET els == SelectSeq(KidsTagged(text.root, "node"), Named) IN
  [j \in DOMAIN els |-> GetName(els[j].attrs).val]

\* C21 (child nodes are exactly the nested node declarations): for every
\* well-formed document the parsed nodes are the names of the `node`
\* elements nested in the root element, in document order, the root element
\* contributes none whether or not it has a name, and the parsed interfaces
\* are the named `interface` elements in document order.
C21_ChildNodes ==
  ParsedWellFormed =>
    /\ ParsedInfo.nodes = DeclaredNodes(input.val)
    /\ LET els == InterfaceElsOf(input.val) IN
       [i \in DOMAIN ParsedInfo.interfaces |-> ParsedInfo.interfaces[i].name]
         = [i \in DOMAIN els |-> GetName(els[i].attrs).val]
====
